---- MODULE Spec2Model ----
(***************************************************************************)
(* Chat sessions with summarisation, query rewriting and context assembly. *)
(*                                                                         *)
(* The module holds four specifications over one set of variables:         *)
(*   Spec     the service as wired in api/main.py and ChatService:         *)
(*            create_chat, delete_chat, send_message and stream_message    *)
(*            running _preprocess_query, one action per await;             *)
(*   SpecGen  the generation half of send_message / stream_message,        *)
(*            started from a PreprocessResult that carries                 *)
(*            context_messages;                                            *)
(*   SpecSum  ChatSummarizeService.summarize_chat of summarizer.py (the    *)
(*            soft-deleting variant) applied to a loaded session;          *)
(*   SpecCtx  ContextAugmentService.build_messages applied to its inputs.  *)
(*                                                                         *)
(* Texts are sequences of atoms (strings); concatenation is \o.  A Python  *)
(* Optional is a sequence of length 0 (None) or 1.                         *)
(***************************************************************************)
EXTENDS Integers, Sequences, FiniteSets, TLC

VARIABLES
    chat_session,          \* table chat_session: id -> row
    chat_message,          \* table chat_message, in created_at order
    chat_session_summary,  \* table chat_session_summary, in insertion order
    creating,              \* create_chat calls between their two awaits
    req,                   \* the send_message / stream_message calls
    clock,                 \* datetime.now(), as a count of the readings taken
    job,                   \* the summarize_chat call of SpecSum
    ctx                    \* the build_messages call of SpecCtx

vars == <<chat_session, chat_message, chat_session_summary, creating, req, clock, job, ctx>>
store == <<chat_session, chat_message, chat_session_summary>>

----------------------------------------------------------------------------
(* Bounds of the model. *)

MaxSessions == 1
MaxReqs == 2
MaxStored == 12
MaxCtx == 4
LongTokens == 1600

(* Program constants. *)

MAX_CONTEXT_MESSAGES == 12
TOKEN_THRESHOLD == 3000
KEEP_RECENT == 3
LOAD_LIMIT == 10

Sids == 1..MaxSessions
Reqs == 1..MaxReqs

----------------------------------------------------------------------------
(* Sequences and Python slices. *)

Min(a, b) == IF a < b THEN a ELSE b
Max(a, b) == IF a > b THEN a ELSE b

Reverse(s) == [i \in 1..Len(s) |-> s[Len(s) + 1 - i]]

\* s[a:b] for 0 <= a, b (Python, zero-based, end exclusive)
Slice(s, a, b) == SubSeq(s, a + 1, Min(b, Len(s)))

\* s[-n:] for n > 0
LastN(s, n) == SubSeq(s, Max(1, Len(s) - n + 1), Len(s))

\* s[a:-n] for a >= 0, n > 0
SliceToMinus(s, a, n) == SubSeq(s, a + 1, Len(s) - n)

RECURSIVE Concat(_)
Concat(ss) == IF ss = <<>> THEN <<>> ELSE Head(ss) \o Concat(Tail(ss))

\* sep.join(ss)
RECURSIVE Join(_, _)
Join(sep, ss) ==
    IF ss = <<>> THEN <<>>
    ELSE IF Len(ss) = 1 THEN Head(ss)
    ELSE Head(ss) \o sep \o Join(sep, Tail(ss))

Range(s) == {s[i] : i \in 1..Len(s)}

None == <<>>
Some(x) == <<x>>

----------------------------------------------------------------------------
(* Texts. *)

system_prompt_str == <<"SYSTEM_PROMPT">>

ShortText == <<"hi">>
LongText == <<"LONG", "LONG">>
UserTexts == {ShortText, LongText}

\* tiktoken: the count of a text is the sum over its atoms; a LONG atom is a
\* passage of LongTokens tokens, a separator adds nothing.
TokenWeight(a) ==
    IF a = "LONG" THEN LongTokens
    ELSE IF a \in {" ", "\n", ""} THEN 0
    ELSE 1

RECURSIVE count_tokens(_)
count_tokens(text) ==
    IF text = <<>> THEN 0 ELSE TokenWeight(Head(text)) + count_tokens(Tail(text))

----------------------------------------------------------------------------
(* The tables. *)

NoSession == [exists |-> FALSE, name |-> "", is_deleted |-> FALSE]

\* INSERT INTO chat_message (session_id, role, content): is_deleted defaults to
\* false, created_at to the insertion time.  by is a history field: the call
\* that inserted the row (0: create_chat).
Row(sid, role, content, by) ==
    [session_id |-> sid, role |-> role, content |-> content,
     is_deleted |-> FALSE, by |-> by]

Indices(tbl) == [i \in 1..Len(tbl) |-> i]

\* WHERE session_id = $1 and is_deleted = false, oldest first
VisibleIds(tbl, sid) ==
    SelectSeq(Indices(tbl),
              LAMBDA i : tbl[i].session_id = sid /\ ~tbl[i].is_deleted)

\* session.messages holds two kinds of entries: load_messages stores lists
\* [id, ChatMessage] ("pair"), add_message appends a bare ChatMessage ("obj").
Pair(tbl, i) == [tag |-> "pair", id |-> i, role |-> tbl[i].role, content |-> tbl[i].content]
Obj(role, content) == [tag |-> "obj", id |-> 0, role |-> role, content |-> content]

\* ORDER BY created_at DESC LIMIT $2 OFFSET $3, then reversed(rows)
load_messages(tbl, sid, limit, page) ==
    LET desc == Reverse(VisibleIds(tbl, sid))
        offset == page * limit
        rows == Slice(desc, offset, offset + limit)
        asc == Reverse(rows)
    IN  [k \in 1..Len(asc) |-> Pair(tbl, asc[k])]

\* an UPDATE that flips the flag instead of setting it
delete_many_toggle(tbl, sid, ids) ==
    IF ids = <<>> THEN tbl
    ELSE [i \in 1..Len(tbl) |->
            IF tbl[i].session_id = sid /\ i \in Range(ids)
            THEN [tbl[i] EXCEPT !.is_deleted = ~tbl[i].is_deleted]
            ELSE tbl[i]]

\* an UPDATE that also blanks the content of the rows it flags
delete_many_scrub(tbl, sid, ids) ==
    IF ids = <<>> THEN tbl
    ELSE [i \in 1..Len(tbl) |->
            IF tbl[i].session_id = sid /\ i \in Range(ids)
            THEN [tbl[i] EXCEPT !.is_deleted = TRUE, !.content = <<>>]
            ELSE tbl[i]]

\* UPDATE chat_message SET is_deleted = TRUE WHERE session_id = $1 AND id = ANY($2)
delete_many(tbl, sid, ids) ==
    IF ids = <<>> THEN tbl
    ELSE [i \in 1..Len(tbl) |->
            IF tbl[i].session_id = sid /\ i \in Range(ids)
            THEN [tbl[i] EXCEPT !.is_deleted = TRUE]
            ELSE tbl[i]]

\* SELECT * FROM chat_session WHERE id=$1: the row whatever its is_deleted flag
get_by_id(tbl, id) ==
    IF id \in DOMAIN tbl /\ tbl[id].exists THEN Some(tbl[id]) ELSE None

\* a DELETE FROM chat_session WHERE id=$1 in its place
update_is_deleted_hard(tbl, id) ==
    IF id \in DOMAIN tbl /\ tbl[id].exists
    THEN [tbl EXCEPT ![id] = NoSession]
    ELSE tbl

\* UPDATE chat_session SET is_deleted=$2 WHERE id=$1
update_is_deleted(tbl, id) ==
    IF id \in DOMAIN tbl /\ tbl[id].exists
    THEN [tbl EXCEPT ![id].is_deleted = TRUE]
    ELSE tbl

\* SELECT * FROM chat_session_summary LIMIT 1000
GET_ALL_LIMIT == 1000
get_all(tbl, limit) == Slice(tbl, 0, limit)

\* the lookup without its "if s.session_id == session_id" filter
get_latest_summary_any(tbl, sid) ==
    LET summaries == get_all(tbl, GET_ALL_LIMIT)
        n == Len(summaries)
        best == CHOOSE i \in 1..n :
                    /\ \A j \in 1..n : summaries[j].updated_at <= summaries[i].updated_at
                    /\ \A j \in 1..(i - 1) : summaries[j].updated_at < summaries[i].updated_at
    IN  IF n = 0 THEN None ELSE Some(summaries[best])

\* max(session_summaries, key=lambda s: s.updated_at): the first of the greatest
get_latest_summary(tbl, sid) ==
    LET session_summaries ==
            SelectSeq(get_all(tbl, GET_ALL_LIMIT), LAMBDA s : s.session_id = sid)
        n == Len(session_summaries)
        best == CHOOSE i \in 1..n :
                    /\ \A j \in 1..n :
                         session_summaries[j].updated_at <= session_summaries[i].updated_at
                    /\ \A j \in 1..(i - 1) :
                         session_summaries[j].updated_at < session_summaries[i].updated_at
    IN  IF n = 0 THEN None ELSE Some(session_summaries[best])

----------------------------------------------------------------------------
(* Python's attribute and index access on the entries of session.messages. *)

\* msg.role, msg.content: AttributeError on a list [id, ChatMessage]
AttributeFails(entries) == \E i \in 1..Len(entries) : entries[i].tag = "pair"

\* msg[1], "for msg_id, _ in messages": TypeError on a bare ChatMessage
SubscriptFails(entries) == \E i \in 1..Len(entries) : entries[i].tag = "obj"

Contents(entries) == [i \in 1..Len(entries) |-> entries[i].content]

----------------------------------------------------------------------------
(* The language model's structured answers and the messages sent to it. *)

QR(orig, amb, rw, qs) ==
    [original_query |-> orig, is_ambiguous |-> amb,
     rewritten_query |-> rw, clarifying_questions |-> qs]

Rewrite1 == <<"rewritten">>

\* What PydanticOutputParser(QueryRewriting) accepts: any bool, any str | None,
\* any list of str.
QueryResults(orig) ==
    { QR(orig, FALSE, None, <<>>),
      QR(orig, TRUE, None, <<"q1", "q2">>),
      QR(orig, TRUE, None, <<>>),
      QR(orig, TRUE, Some(Rewrite1), <<>>),
      QR(orig, TRUE, Some(Rewrite1), <<"q1">>),
      QR(orig, FALSE, Some(Rewrite1), <<>>),
      QR(orig, TRUE, Some(<<>>), <<>>) }

\* The answers the calls of Spec draw from: clear, ambiguous with questions,
\* rewritten, rewritten with stray questions.
PipelineResults(orig) ==
    { QR(orig, FALSE, None, <<>>),
      QR(orig, TRUE, None, <<"q1", "q2">>),
      QR(orig, TRUE, Some(Rewrite1), <<>>),
      QR(orig, TRUE, Some(Rewrite1), <<"q1">>) }

SystemMessage(content) == [type |-> "system", content |-> content]
HumanMessage(content) == [type |-> "human", content |-> content]
AIMessage(content) == [type |-> "ai", content |-> content]

\* "Cau hoi cua ban chua ro rang. ...:\n\n" + "\n".join(f"- {q}" for q in questions)
clarification_text(qs) ==
    <<"CLARIFY:\n\n">> \o Join(<<"\n">>, [i \in 1..Len(qs) |-> <<"- ", qs[i]>>])

\* the test without its second operand
IsEarlyReplyAnyAmbiguous(qr) == qr.is_ambiguous

\* the test with its second operand inverted
IsEarlyReplyInverted(qr) == qr.is_ambiguous /\ qr.rewritten_query # None

\* query_result.is_ambiguous and query_result.rewritten_query is None
IsEarlyReply(qr) == qr.is_ambiguous /\ qr.rewritten_query = None

\* summarization.py: token_count > settings.TOKEN_THRESHOLD over " ".join(contents)
should_summarize(entries) ==
    count_tokens(Join(<<" ">>, Contents(entries))) > TOKEN_THRESHOLD

----------------------------------------------------------------------------
(* ChatService: create_chat and delete_chat. *)

Names == {"Demo"}

\* uuid4(): an id no session holds
FreshIds == {i \in Sids : ~chat_session[i].exists /\ \A j \in 1..(i - 1) : chat_session[j].exists}

\* create_chat up to its first await: session.save(...)
CreateChatSave(name) ==
    \E id \in FreshIds :
        /\ chat_session' = [chat_session EXCEPT
                               ![id] = [exists |-> TRUE, name |-> name, is_deleted |-> FALSE]]
        /\ creating' = creating \cup {id}
        /\ UNCHANGED <<chat_message, chat_session_summary, req, clock, job, ctx>>

\* create_chat after it: session.add_message("system", self.system_prompt_str)
CreateChatSeed(id) ==
    /\ id \in creating
    /\ chat_message' = Append(chat_message, Row(id, "system", system_prompt_str, 0))
    /\ creating' = creating \ {id}
    /\ UNCHANGED <<chat_session, chat_session_summary, req, clock, job, ctx>>

\* delete_chat: ChatSession.update(session_id, {"is_deleted": True})
DeleteChat(id) ==
    /\ chat_session[id].exists
    /\ ~chat_session[id].is_deleted
    /\ chat_session' = update_is_deleted(chat_session, id)
    /\ UNCHANGED <<chat_message, chat_session_summary, creating, req, clock, job, ctx>>

----------------------------------------------------------------------------
(* ChatService._preprocess_query, one action per await.                    *)

IdleReq ==
    [pc |-> "idle", kind |-> "", sid |-> 0, text |-> <<>>,
     messages |-> <<>>,     \* session.messages of the ChatSession object
     summary |-> None, qr |-> None,
     context |-> <<>>,      \* PreprocessResult.context_messages
     upstream |-> <<>>,     \* the chunks llm.astream has still to produce
     full |-> <<>>,         \* full_response
     delivered |-> <<>>,    \* what the caller has received, one entry per yield
     reply |-> None,        \* what send_message returned
     exc |-> "",            \* the exception that ended the call
     generated |-> <<>>,    \* history: every chunk of the upstream sequence
     deleted_at_start |-> FALSE,  \* history: the session's flag when the call began
     gen_calls |-> 0,       \* history: llm.ainvoke / llm.astream calls made
     prompt |-> <<>>,       \* history: the messages the model was last called with
     fresh |-> FALSE,       \* history: load_messages found the seeded system turn only
     checked |-> FALSE]     \* history: should_summarize (chat.py:126) was evaluated

\* The call has ended: its ChatSession object and its locals are gone.
Return(rec) ==
    [rec EXCEPT !.pc = "done", !.messages = <<>>, !.summary = None, !.context = <<>>,
                !.upstream = <<>>, !.full = <<>>]

Raise(rec, exc) == [Return(rec) EXCEPT !.exc = exc]

PipelineFrame == UNCHANGED <<chat_session, chat_session_summary, creating, clock, job, ctx>>
LocalFrame == UNCHANGED <<chat_session, chat_message, chat_session_summary, creating, clock, job, ctx>>

\* A call arrives: POST /sessions/{id}/messages or .../messages/stream
Start(r, kind, sid, text) ==
    /\ req[r].pc = "idle"
    /\ IF r = 1 THEN TRUE ELSE req[r - 1].pc # "idle"
    /\ req' = [req EXCEPT ![r] = [IdleReq EXCEPT
                  !.pc = "get_by_id", !.kind = kind, !.sid = sid, !.text = text,
                  !.deleted_at_start = chat_session[sid].exists /\ chat_session[sid].is_deleted]]
    /\ LocalFrame

\* session = await ChatSession.get_by_id(chat_id); if not session: raise ValueError
GetById(r) ==
    /\ req[r].pc = "get_by_id"
    /\ req' = [req EXCEPT ![r] =
                  IF get_by_id(chat_session, req[r].sid) = None
                  THEN Raise(req[r], "ValueError")
                  ELSE [req[r] EXCEPT !.pc = "load_messages"]]
    /\ LocalFrame

\* await session.load_messages()
LoadMessages(r) ==
    /\ req[r].pc = "load_messages"
    /\ req' = [req EXCEPT ![r] = [req[r] EXCEPT
                  !.pc = "get_latest_summary",
                  !.fresh = (Len(VisibleIds(chat_message, req[r].sid)) = 1
                             /\ chat_message[VisibleIds(chat_message, req[r].sid)[1]].role = "system"),
                  !.messages = load_messages(chat_message, req[r].sid, LOAD_LIMIT, 0)]]
    /\ LocalFrame

\* summary = await get_latest_summary(session.id); then
\* recent_msgs = [f"{msg.role}: {msg.content}" for msg in session.messages[-12:]]
GetLatestSummary(r) ==
    /\ req[r].pc = "get_latest_summary"
    /\ req' = [req EXCEPT ![r] =
                  IF AttributeFails(LastN(req[r].messages, MAX_CONTEXT_MESSAGES))
                  THEN Raise(req[r], "AttributeError")
                  ELSE [req[r] EXCEPT
                           !.pc = "rewrite",
                           !.summary = get_latest_summary(chat_session_summary, req[r].sid)]]
    /\ LocalFrame

\* query_result = await self.query_rewriting.rewrite(...) returns; add_message
\* appends the user's ChatMessage to session.messages before its INSERT
Rewrite(r, result) ==
    /\ req[r].pc = "rewrite"
    /\ req' = [req EXCEPT ![r] = [req[r] EXCEPT
                  !.pc = "add_user",
                  !.qr = Some(result),
                  !.messages = Append(req[r].messages, Obj("user", req[r].text))]]
    /\ LocalFrame

\* the chain raises: the call to the model failed or its output did not parse
RewriteFails(r) ==
    /\ req[r].pc = "rewrite"
    /\ req' = [req EXCEPT ![r] = Raise(req[r], "UpstreamError")]
    /\ LocalFrame

\* summarization.py, summarize_chat: messages[0].role fails on a loaded pair, and
\* self.KEEP_RECENT is an attribute the class does not have.  Whatever the
\* session holds the call raises before it reaches the model or the tables.
summarize_chat_unwired(entries) == "AttributeError"

\* self.context_augment.augment_context(...): ContextAugmentService has no such
\* method
augment_context == "AttributeError"

\* _preprocess_query from the user's INSERT to its next await (lines 98-138)
AfterUserInsert(rec) ==
    LET qr == rec.qr[1] IN
    IF IsEarlyReply(qr)
    THEN [rec EXCEPT
             !.pc = "add_clarification",
             !.messages = Append(rec.messages,
                                 Obj("assistant", clarification_text(qr.clarifying_questions)))]
    ELSE IF AttributeFails(rec.messages)
    THEN Raise(rec, "AttributeError")
    ELSE IF should_summarize(rec.messages)
    THEN Raise([rec EXCEPT !.checked = TRUE], summarize_chat_unwired(rec.messages))
    ELSE IF rec.summary = None
    THEN [rec EXCEPT !.pc = "refresh_summary", !.checked = TRUE]
    ELSE Raise([rec EXCEPT !.checked = TRUE], augment_context)

\* await session.add_message("user", user_message): the INSERT
AddUserMessage(r) ==
    /\ req[r].pc = "add_user"
    /\ chat_message' = Append(chat_message, Row(req[r].sid, "user", req[r].text, r))
    /\ req' = [req EXCEPT ![r] = AfterUserInsert(req[r])]
    /\ PipelineFrame

\* the clarification inserted twice where the code inserts it once
AddClarificationTwice(r) ==
    /\ req[r].pc = "add_clarification"
    /\ LET text == clarification_text(req[r].qr[1].clarifying_questions) IN
       /\ chat_message' = Append(Append(chat_message,
                                        Row(req[r].sid, "assistant", text, r)),
                                 Row(req[r].sid, "assistant", text, r))
       /\ req' = [req EXCEPT ![r] =
                     IF req[r].kind = "send"
                     THEN [Return(req[r]) EXCEPT !.reply = Some(text)]
                     ELSE [req[r] EXCEPT !.pc = "yield_early", !.delivered = <<text>>]]
    /\ PipelineFrame

\* await session.add_message("assistant", clarification_text): the INSERT; then
\* send_message returns the early response, stream_message yields it
AddClarification(r) ==
    /\ req[r].pc = "add_clarification"
    /\ LET text == clarification_text(req[r].qr[1].clarifying_questions) IN
       /\ chat_message' = Append(chat_message, Row(req[r].sid, "assistant", text, r))
       /\ req' = [req EXCEPT ![r] =
                     IF req[r].kind = "send"
                     THEN [Return(req[r]) EXCEPT !.reply = Some(text)]
                     ELSE [req[r] EXCEPT !.pc = "yield_early", !.delivered = <<text>>]]
    /\ PipelineFrame

\* stream_message is resumed after "yield result.early_response" and returns
StreamEarlyReturn(r) ==
    /\ req[r].pc = "yield_early"
    /\ req' = [req EXCEPT ![r] = Return(req[r])]
    /\ LocalFrame

\* summary = await get_latest_summary(session.id) (line 138), then augment_context
RefreshSummary(r) ==
    /\ req[r].pc = "refresh_summary"
    /\ req' = [req EXCEPT ![r] =
                  Raise([req[r] EXCEPT
                            !.summary = get_latest_summary(chat_session_summary, req[r].sid)],
                        augment_context)]
    /\ LocalFrame

----------------------------------------------------------------------------
(* The service as wired. *)

Init ==
    /\ chat_session = [i \in Sids |-> NoSession]
    /\ chat_message = <<>>
    /\ chat_session_summary = <<>>
    /\ creating = {}
    /\ req = [r \in Reqs |-> IdleReq]
    /\ clock = 0
    /\ job = [pc |-> "unused"]
    /\ ctx = [pc |-> "unused"]

Next ==
    \/ \E name \in Names : CreateChatSave(name)
    \/ \E id \in Sids : CreateChatSeed(id)
    \/ \E id \in Sids : DeleteChat(id)
    \/ \E r \in Reqs, kind \in {"send", "stream"}, sid \in Sids, text \in UserTexts :
           Start(r, kind, sid, text)
    \/ \E r \in Reqs : GetById(r)
    \/ \E r \in Reqs : LoadMessages(r)
    \/ \E r \in Reqs : GetLatestSummary(r)
    \/ \E r \in Reqs : \E result \in PipelineResults(req[r].text) : Rewrite(r, result)
    \/ \E r \in Reqs : RewriteFails(r)
    \/ \E r \in Reqs : AddUserMessage(r)
    \/ \E r \in Reqs : AddClarification(r)
    \/ \E r \in Reqs : StreamEarlyReturn(r)
    \/ \E r \in Reqs : RefreshSummary(r)

Spec == Init /\ [][Next]_vars

----------------------------------------------------------------------------
(* ChatService._prepare_context and the generation half of send_message    *)
(* and stream_message.                                                     *)

SummaryRow(sid, key_facts, open_questions, decisions, todos, at) ==
    [session_id |-> sid, key_facts |-> key_facts, open_questions |-> open_questions,
     decisions |-> decisions, todos |-> todos, created_at |-> at, updated_at |-> at]

\* summary.model_dump_json()
model_dump_json(summary) ==
    <<"{">> \o summary.key_facts \o <<",">> \o summary.decisions \o <<",">>
            \o summary.open_questions \o <<",">> \o summary.todos \o <<"}">>

\* the loop of _prepare_context: user -> HumanMessage, assistant -> AIMessage,
\* any other role dropped
RECURSIVE RoleMessages(_)
RoleMessages(entries) ==
    IF entries = <<>> THEN <<>>
    ELSE LET msg == Head(entries)
             rest == RoleMessages(Tail(entries))
         IN  IF msg.role = "user" THEN <<HumanMessage(msg.content)>> \o rest
             ELSE IF msg.role = "assistant" THEN <<AIMessage(msg.content)>> \o rest
             ELSE rest

\* _prepare_context(session, summary), for entries whose .role can be read
_prepare_context(entries, summary) ==
    <<SystemMessage(system_prompt_str)>>
    \o (IF summary = None THEN <<>>
        ELSE <<SystemMessage(<<"[Session Memory]\n">> \o model_dump_json(summary[1]))>>)
    \o RoleMessages(LastN(entries, MAX_CONTEXT_MESSAGES))

\* response = await self.llm.ainvoke(context_messages) returns; add_message
\* appends the reply to session.messages before its INSERT
Ainvoke(r, content) ==
    /\ req[r].pc = "generate"
    /\ req[r].kind = "send"
    /\ req' = [req EXCEPT ![r] = [req[r] EXCEPT
                  !.pc = "add_assistant",
                  !.gen_calls = req[r].gen_calls + 1,
                  !.prompt = req[r].context,
                  !.generated = <<content>>,
                  !.full = content,
                  !.messages = Append(req[r].messages, Obj("assistant", content))]]
    /\ LocalFrame

\* llm.ainvoke raises
AinvokeFails(r) ==
    /\ req[r].pc = "generate"
    /\ req[r].kind = "send"
    /\ req' = [req EXCEPT ![r] =
                  Raise([req[r] EXCEPT !.gen_calls = req[r].gen_calls + 1,
                                       !.prompt = req[r].context], "UpstreamError")]
    /\ LocalFrame

\* llm.ainvoke neither returns nor raises: ChatOpenAI is built with no timeout and
\* the await is not bounded, so send_message stays suspended at it
AinvokeHangs(r) ==
    /\ req[r].pc = "generate"
    /\ req[r].kind = "send"
    /\ req' = [req EXCEPT ![r] = [req[r] EXCEPT
                  !.pc = "awaiting_ainvoke",
                  !.gen_calls = req[r].gen_calls + 1,
                  !.prompt = req[r].context]]
    /\ LocalFrame

\* full_response = ""; the async for over self.llm.astream(context_messages) begins
AstreamOpen(r, chunks) ==
    /\ req[r].pc = "generate"
    /\ req[r].kind = "stream"
    /\ req' = [req EXCEPT ![r] = [req[r] EXCEPT
                  !.pc = "astream",
                  !.gen_calls = req[r].gen_calls + 1,
                  !.prompt = req[r].context,
                  !.generated = chunks,
                  !.upstream = chunks,
                  !.full = <<>>]]
    /\ LocalFrame

\* the next chunk arrives: if chunk.content: full_response += it; yield it
AstreamNext(r) ==
    /\ req[r].pc = "astream"
    /\ req[r].upstream # <<>>
    /\ LET chunk == Head(req[r].upstream) IN
       req' = [req EXCEPT ![r] =
                  IF chunk # <<>>
                  THEN [req[r] EXCEPT
                           !.pc = "yielded",
                           !.upstream = Tail(req[r].upstream),
                           !.full = req[r].full \o chunk,
                           !.delivered = Append(req[r].delivered, chunk)]
                  ELSE [req[r] EXCEPT !.upstream = Tail(req[r].upstream)]]
    /\ LocalFrame

\* the caller asks for the next delta: the generator is resumed after its yield
Resume(r) ==
    /\ req[r].pc = "yielded"
    /\ req' = [req EXCEPT ![r] = [req[r] EXCEPT !.pc = "astream"]]
    /\ LocalFrame

\* a generator that stores what it has accumulated when it is closed
ClosePersisting(r) ==
    /\ req[r].pc = "yielded"
    /\ chat_message' = Append(chat_message, Row(req[r].sid, "assistant", req[r].full, r))
    /\ req' = [req EXCEPT ![r] = Raise(req[r], "GeneratorExit")]
    /\ UNCHANGED <<chat_session, chat_session_summary, creating, clock, job, ctx>>

\* the caller stops consuming: the generator is closed at its yield
Close(r) ==
    /\ req[r].pc = "yielded"
    /\ req' = [req EXCEPT ![r] = Raise(req[r], "GeneratorExit")]
    /\ LocalFrame

\* llm.astream raises while the next chunk is awaited
AstreamFails(r) ==
    /\ req[r].pc = "astream"
    /\ req' = [req EXCEPT ![r] = Raise(req[r], "UpstreamError")]
    /\ LocalFrame

\* a loop that may leave before the upstream sequence is exhausted
AstreamEndUndrained(r) ==
    /\ req[r].pc = "astream"
    /\ req' = [req EXCEPT ![r] = [req[r] EXCEPT
                  !.pc = "add_assistant",
                  !.messages = Append(req[r].messages, Obj("assistant", req[r].full))]]
    /\ LocalFrame

\* the upstream sequence is exhausted: the loop ends and add_message appends
\* full_response to session.messages before its INSERT
AstreamEnd(r) ==
    /\ req[r].pc = "astream"
    /\ req[r].upstream = <<>>
    /\ req' = [req EXCEPT ![r] = [req[r] EXCEPT
                  !.pc = "add_assistant",
                  !.messages = Append(req[r].messages, Obj("assistant", req[r].full))]]
    /\ LocalFrame

\* await result.chat.add_message("assistant", ...): the INSERT; send_message
\* returns the reply, stream_message ends
AddAssistantMessage(r) ==
    /\ req[r].pc = "add_assistant"
    /\ chat_message' = Append(chat_message, Row(req[r].sid, "assistant", req[r].full, r))
    /\ req' = [req EXCEPT ![r] =
                  IF req[r].kind = "send"
                  THEN [Return(req[r]) EXCEPT !.reply = Some(req[r].full)]
                  ELSE Return(req[r])]
    /\ PipelineFrame

Replies == { <<"a", "b">>, <<>> }
Streams == { <<<<"a">>, <<"b">>>>, <<<<"a">>, <<>>, <<"b">>>>, <<<<>>>>, <<>> }
StoredSummaries == { <<>>, <<SummaryRow(1, <<"f1">>, <<>>, <<"d1">>, <<>>, 1)>> }

\* _preprocess_query has returned PreprocessResult(chat=session, context_messages=...)
\* to call 1: the session row exists, the user's turn is stored, session.messages
\* holds ChatMessage objects only.
InitGen ==
    /\ \E deleted \in BOOLEAN :
           chat_session = [i \in Sids |->
               IF i = 1 THEN [exists |-> TRUE, name |-> "Demo", is_deleted |-> deleted]
               ELSE NoSession]
    /\ chat_session_summary \in StoredSummaries
    /\ creating = {}
    /\ clock = Len(chat_session_summary)
    /\ job = [pc |-> "unused"]
    /\ ctx = [pc |-> "unused"]
    /\ \E kind \in {"send", "stream"}, text \in UserTexts :
       \E result \in {q \in QueryResults(text) : ~IsEarlyReply(q)} :
          /\ chat_message \in
                { <<Row(1, "user", text, 1)>>,
                  <<Row(1, "system", system_prompt_str, 0), Row(1, "user", text, 1)>>,
                  <<Row(1, "user", text, 1), Row(1, "system", system_prompt_str, 0)>> }
          /\ req = [r \in Reqs |->
                IF r = 1
                THEN [IdleReq EXCEPT
                         !.pc = "generate", !.kind = kind, !.sid = 1, !.text = text,
                         !.qr = Some(result),
                         !.messages = <<Obj("user", text)>>,
                         !.summary = get_latest_summary(chat_session_summary, 1),
                         !.deleted_at_start = chat_session[1].is_deleted,
                         !.context = _prepare_context(<<Obj("user", text)>>,
                                         get_latest_summary(chat_session_summary, 1))]
                ELSE IdleReq]

NextGen ==
    \/ \E r \in Reqs : \E content \in Replies : Ainvoke(r, content)
    \/ \E r \in Reqs : AinvokeFails(r)
    \/ \E r \in Reqs : AinvokeHangs(r)
    \/ \E r \in Reqs : \E chunks \in Streams : AstreamOpen(r, chunks)
    \/ \E r \in Reqs : AstreamNext(r)
    \/ \E r \in Reqs : Resume(r)
    \/ \E r \in Reqs : Close(r)
    \/ \E r \in Reqs : AstreamFails(r)
    \/ \E r \in Reqs : AstreamEnd(r)
    \/ \E r \in Reqs : AddAssistantMessage(r)

SpecGen == InitGen /\ [][NextGen]_vars

\* the event loop runs every coroutine that can take a step
SpecGenFair == SpecGen /\ WF_vars(NextGen)

----------------------------------------------------------------------------
(* summarizer.py: ChatSummarizeService, the variant that soft-deletes the  *)
(* summarised turns.  Its entries are the lists [id, ChatMessage] that     *)
(* load_messages stores.                                                   *)

\* should_summarize returns the tuple (should_trigger, token_count)
summarizer_should_summarize(entries) ==
    LET token_count == count_tokens(Join(<<" ">>, Contents(entries)))
    IN  <<token_count > TOKEN_THRESHOLD, token_count>>

\* start_idx = 1 if messages and messages[0][1].role == "system" else 0
start_idx(entries) ==
    IF entries # <<>> /\ entries[1].role = "system" THEN 1 ELSE 0

\* the comparison made strict
TooFewStrict(entries) == Len(entries) - start_idx(entries) < KEEP_RECENT

\* if len(messages) - start_idx <= settings.KEEP_RECENT: return None
TooFew(entries) == Len(entries) - start_idx(entries) <= KEEP_RECENT

\* a window that does not reserve the last KEEP_RECENT turns
to_summarize_all(entries) == SubSeq(entries, start_idx(entries) + 1, Len(entries))

\* to_summarize = messages[start_idx:-settings.KEEP_RECENT]
to_summarize(entries) == SliceToMinus(entries, start_idx(entries), KEEP_RECENT)

\* ids = [msg_id for msg_id, _ in messages]
MessageIds(entries) == [i \in 1..Len(entries) |-> entries[i].id]

SummaryOutputs ==
    { [key_facts |-> <<"f1">>, open_questions |-> <<"o1">>, decisions |-> <<>>, todos |-> <<>>],
      [key_facts |-> <<>>, open_questions |-> <<>>, decisions |-> <<>>, todos |-> <<>>] }

IdleJob ==
    [pc |-> "load", sid |-> 1,
     messages |-> <<>>,      \* session.messages
     window |-> <<>>,        \* to_summarize
     summary |-> None,       \* the ChatSessionSummary built by _create_summary
     result |-> None,        \* what summarize_chat returned
     exc |-> "",
     called_with |-> <<>>,   \* history: session.messages when summarize_chat began
     before |-> <<>>,        \* history: chat_message when it began
     summaries_before |-> <<>>,
     triggered |-> "unknown"] \* history: how "if should_summarize(session):" went

JobFrame == UNCHANGED <<chat_session, creating, req, ctx>>

\* await session.load_messages()
JobLoad ==
    /\ job.pc = "load"
    /\ job' = [job EXCEPT !.pc = "loaded",
                          !.messages = load_messages(chat_message, job.sid, LOAD_LIMIT, 0)]
    /\ UNCHANGED <<chat_message, chat_session_summary, clock>>
    /\ JobFrame

\* await session.add_message("user", text), as _preprocess_query does before
\* it summarises
JobAddUser(text) ==
    /\ job.pc = "loaded"
    /\ job' = [job EXCEPT !.pc = "ready",
                          !.messages = Append(job.messages, Obj("user", text))]
    /\ chat_message' = Append(chat_message, Row(job.sid, "user", text, 0))
    /\ UNCHANGED <<chat_session_summary, clock>>
    /\ JobFrame

\* bool(x) of a tuple: true unless the tuple is empty
truthy(x) == Len(x) # 0

\* "if self.summarize_service.should_summarize(session):" as _preprocess_query
\* writes it, on the should_summarize of summarizer.py: msg[1] raises on a bare
\* ChatMessage, and the value tested is the tuple the function returns
JobShouldSummarize ==
    /\ job.pc \in {"loaded", "ready"}
    /\ job.triggered = "unknown"
    /\ LET ended == [job EXCEPT !.pc = "done", !.messages = <<>>,
                                !.called_with = job.messages,
                                !.before = chat_message,
                                !.summaries_before = chat_session_summary]
       IN  job' =
             IF SubscriptFails(job.messages)
             THEN [ended EXCEPT !.exc = "TypeError", !.triggered = "raised"]
             ELSE IF truthy(summarizer_should_summarize(job.messages))
             THEN [job EXCEPT !.triggered = "yes"]
             ELSE [ended EXCEPT !.triggered = "no"]
    /\ UNCHANGED <<chat_message, chat_session_summary, clock>>
    /\ JobFrame

\* summarize_chat up to the await of the chain in _create_summary
JobSummarize ==
    /\ job.pc \in {"loaded", "ready"}
    /\ LET started == [job EXCEPT !.called_with = job.messages,
                                  !.before = chat_message,
                                  !.summaries_before = chat_session_summary]
           done == [started EXCEPT !.pc = "done", !.messages = <<>>]
       IN  job' =
             IF job.messages # <<>> /\ SubscriptFails(<<job.messages[1]>>)
             THEN [done EXCEPT !.exc = "TypeError"]
             ELSE IF TooFew(job.messages)
             THEN done
             ELSE IF SubscriptFails(to_summarize(job.messages))
             THEN [done EXCEPT !.exc = "TypeError"]
             ELSE [started EXCEPT !.pc = "create_summary",
                                  !.window = to_summarize(job.messages)]
    /\ UNCHANGED <<chat_message, chat_session_summary, clock>>
    /\ JobFrame

\* the chain returns a SummaryContent; ChatSessionSummary(session_id=..., ...)
\* takes created_at and updated_at from datetime.now
JobCreateSummary(out) ==
    /\ job.pc = "create_summary"
    /\ clock' = clock + 1
    /\ job' = [job EXCEPT
                  !.pc = "save",
                  !.summary = Some(SummaryRow(job.sid, out.key_facts, out.open_questions,
                                              out.decisions, out.todos, clock + 1))]
    /\ UNCHANGED <<chat_message, chat_session_summary>>
    /\ JobFrame

\* the chain raises
JobCreateSummaryFails ==
    /\ job.pc = "create_summary"
    /\ job' = [job EXCEPT !.pc = "done", !.exc = "UpstreamError",
                          !.messages = <<>>, !.window = <<>>]
    /\ UNCHANGED <<chat_message, chat_session_summary, clock>>
    /\ JobFrame

\* an UPDATE of the newest summary row where the code has an INSERT
JobSaveReplacing ==
    /\ job.pc = "save"
    /\ chat_session_summary' =
           IF chat_session_summary = <<>> THEN <<job.summary[1]>>
           ELSE [chat_session_summary EXCEPT ![Len(chat_session_summary)] = job.summary[1]]
    /\ job' = [job EXCEPT !.pc = "delete"]
    /\ UNCHANGED <<chat_message, clock>>
    /\ JobFrame

\* await summary.save(summary.model_dump()): the INSERT
JobSave ==
    /\ job.pc = "save"
    /\ chat_session_summary' = Append(chat_session_summary, job.summary[1])
    /\ job' = [job EXCEPT !.pc = "delete"]
    /\ UNCHANGED <<chat_message, clock>>
    /\ JobFrame

\* await self.delete_old_messages(session.id, to_summarize); return summary
JobDelete ==
    /\ job.pc = "delete"
    /\ chat_message' = delete_many(chat_message, job.sid, MessageIds(job.window))
    /\ job' = [job EXCEPT !.pc = "done", !.result = job.summary,
                          !.messages = <<>>, !.window = <<>>]
    /\ UNCHANGED <<chat_session_summary, clock>>
    /\ JobFrame

\* the UPDATE of delete_many raises: nothing in summarize_chat catches it
JobDeleteFails ==
    /\ job.pc = "delete"
    /\ job' = [job EXCEPT !.pc = "done", !.exc = "StoreError",
                          !.messages = <<>>, !.window = <<>>]
    /\ UNCHANGED <<chat_message, chat_session_summary, clock>>
    /\ JobFrame

\* The stored turns the call starts from: n turns of session 1, the first a system
\* turn or not, light or heavy, some already soft-deleted, and possibly a turn of
\* another session among them.
StoredTurn(i, lead, heavy) ==
    IF i = 1 /\ lead THEN Row(1, "system", system_prompt_str, 0)
    ELSE Row(1, IF i % 2 = 0 THEN "user" ELSE "assistant",
             IF heavy THEN <<"LONG">> ELSE <<"m">>, 0)

StoredTurns(n, lead, heavy, gone, foreign) ==
    LET own == [i \in 1..n |->
                   [StoredTurn(i, lead, heavy) EXCEPT !.is_deleted = (i \in gone)]]
    IN  IF foreign /\ n >= 2
        THEN SubSeq(own, 1, 2) \o <<Row(2, "user", <<"x">>, 0)>> \o SubSeq(own, 3, n)
        ELSE own

\* the store create_chat leaves when a send ran between its session INSERT and
\* its system-turn INSERT: the send's user turn is older than the system turn
SeededLate(tbl) ==
    IF Len(tbl) >= 2 /\ tbl[1].role = "system"
    THEN <<tbl[2], tbl[1]>> \o SubSeq(tbl, 3, Len(tbl))
    ELSE tbl

\* a long conversation: more stored turns than load_messages reads
ScenarioTurns == 50

InitSum ==
    /\ chat_session = [i \in Sids |->
           IF i = 1 THEN [exists |-> TRUE, name |-> "Demo", is_deleted |-> FALSE]
           ELSE NoSession]
    /\ \E n \in (0..MaxStored) \cup {ScenarioTurns}, lead \in BOOLEAN, heavy \in BOOLEAN, foreign \in BOOLEAN :
       \E gone \in {{}, {1}, {2, 3}}, late \in BOOLEAN :
           chat_message = IF late
                          THEN SeededLate(StoredTurns(n, lead, heavy, gone, foreign))
                          ELSE StoredTurns(n, lead, heavy, gone, foreign)
    /\ chat_session_summary \in StoredSummaries
    /\ creating = {}
    /\ req = [r \in Reqs |-> IdleReq]
    /\ clock = Len(chat_session_summary)
    /\ job = IdleJob
    /\ ctx = [pc |-> "unused"]

NextSum ==
    \/ JobLoad
    \/ JobAddUser(ShortText)
    \/ JobShouldSummarize
    \/ JobSummarize
    \/ \E out \in SummaryOutputs : JobCreateSummary(out)
    \/ JobCreateSummaryFails
    \/ JobSave
    \/ JobDelete
    \/ JobDeleteFails

SpecSum == InitSum /\ [][NextSum]_vars

----------------------------------------------------------------------------
(* context_augment.py: ContextAugmentService.build_messages.               *)

\* "Key facts:\n- " + "\n- ".join(summary.key_facts), and the like
Block(title, items) ==
    <<title>> \o Join(<<"\n- ">>, [i \in 1..Len(items) |-> <<items[i]>>])

\* the blocks of the fields build_messages renders, empty fields left out
memory_blocks(summary) ==
    (IF summary.key_facts # <<>>
     THEN <<Block("Key facts:\n- ", summary.key_facts)>> ELSE <<>>)
    \o (IF summary.open_questions # <<>>
        THEN <<Block("Open questions:\n- ", summary.open_questions)>> ELSE <<>>)

\* final_query = query_result.rewritten_query or query_result.original_query
final_query(qr) ==
    IF qr.rewritten_query # None /\ qr.rewritten_query[1] # <<>>
    THEN qr.rewritten_query[1]
    ELSE qr.original_query

\* build_messages(system_prompt, session, summary, query_result), for entries
\* that can be subscripted
build_messages(system_prompt, entries, summary, qr) ==
    <<SystemMessage(system_prompt)>>
    \o (IF summary # None /\ memory_blocks(summary[1]) # <<>>
        THEN <<SystemMessage(<<"[Session Memory]\n">>
                             \o Join(<<"\n\n">>, memory_blocks(summary[1])))>>
        ELSE <<>>)
    \o RoleMessages(LastN(entries, KEEP_RECENT))
    \o <<HumanMessage(final_query(qr))>>

\* The call returns, or msg[1] raises on a bare ChatMessage among the last
\* KEEP_RECENT entries.
BuildMessages ==
    /\ ctx.pc = "call"
    /\ ctx' = IF SubscriptFails(LastN(ctx.entries, KEEP_RECENT))
              THEN [ctx EXCEPT !.pc = "returned", !.exc = "TypeError"]
              ELSE [ctx EXCEPT
                       !.pc = "returned",
                       !.out = build_messages(system_prompt_str, ctx.entries,
                                              ctx.summary, ctx.qr)]
    /\ UNCHANGED <<chat_session, chat_message, chat_session_summary, creating, req, clock, job>>

Roles == {"system", "user", "assistant"}

TurnText(i) == <<"turn", IF i % 2 = 0 THEN "even" ELSE "odd">>

\* session.messages as load_messages leaves it, its last entry possibly appended
\* by add_message
CtxEntries(roles, appended) ==
    [i \in 1..Len(roles) |->
        IF appended /\ i = Len(roles)
        THEN Obj(roles[i], TurnText(i))
        ELSE [tag |-> "pair", id |-> i, role |-> roles[i], content |-> TurnText(i)]]

CtxSummaries ==
    {None} \cup
    { Some(SummaryRow(1, kf, oq, d, <<>>, 1)) :
        kf \in {<<>>, <<"f1", "f2">>}, oq \in {<<>>, <<"o1">>}, d \in {<<>>, <<"d1">>} }

InitCtx ==
    /\ chat_session = [i \in Sids |-> NoSession]
    /\ chat_message = <<>>
    /\ chat_session_summary = <<>>
    /\ creating = {}
    /\ req = [r \in Reqs |-> IdleReq]
    /\ clock = 0
    /\ job = [pc |-> "unused"]
    /\ \E n \in 0..MaxCtx :
       \E roles \in [1..n -> Roles], appended \in BOOLEAN :
       \E summary \in CtxSummaries, qr \in QueryResults(ShortText) :
           ctx = [pc |-> "call", entries |-> CtxEntries(roles, appended),
                  summary |-> summary, qr |-> qr, out |-> <<>>, exc |-> ""]

NextCtx == BuildMessages

SpecCtx == InitCtx /\ [][NextCtx]_vars

----------------------------------------------------------------------------
(* Properties of the service as wired (Spec).                              *)

\* the rows call r inserted with the given role
RowsBy(r, role) ==
    {i \in 1..Len(chat_message) : chat_message[i].by = r /\ chat_message[i].role = role}

AmbiguousNoRewrite(q) == q.is_ambiguous = TRUE /\ Len(q.rewritten_query) = 0

\* two calls on one session, both past get_by_id and not yet ended
InFlight(r) == req[r].pc \notin {"idle", "get_by_id", "done"}

\* C1: in every send or stream on an existing session the user turn is appended
\* first, then the summarization check runs, then the query is classified: the
\* user turn is already persisted when classification runs.
C1_UserTurnStoredWhenClassified ==
    \A r \in Reqs : req[r].qr # None => RowsBy(r, "user") # {}

\* C2: when classification returns is_ambiguous = true with no rewritten query,
\* the call takes the early path once the user turn is stored: the clarification
\* synthesized from the clarifying questions is persisted as the assistant turn
\* of the call, send returns that text, and no generation call is made.
C2_ClarificationShortCircuit ==
    \A r \in Reqs :
        (req[r].qr # None /\ AmbiguousNoRewrite(req[r].qr[1]) /\ RowsBy(r, "user") # {})
        => LET text == clarification_text(req[r].qr[1].clarifying_questions)
           IN  /\ req[r].gen_calls = 0
               /\ req[r].exc = ""
               /\ \/ req[r].pc = "add_clarification" /\ RowsBy(r, "assistant") = {}
                  \/ /\ req[r].pc \in {"yield_early", "done"}
                     /\ Cardinality(RowsBy(r, "assistant")) = 1
                     /\ \A i \in RowsBy(r, "assistant") : chat_message[i].content = text
                     /\ req[r].kind = "send" => req[r].reply = <<text>>
                     /\ req[r].kind = "stream" => req[r].delivered = <<text>>

\* C2, its case: a send has returned the clarification for an ambiguous answer
C2_Witness ==
    \E r \in Reqs :
        /\ req[r].pc = "done" /\ req[r].kind = "send"
        /\ req[r].qr # None /\ AmbiguousNoRewrite(req[r].qr[1])
        /\ req[r].reply # None
        /\ RowsBy(r, "assistant") # {}

\* C5: a send or stream on a session that was soft-deleted by delete_session
\* fails with the not-found error and appends no turn.
C5_DeletedSessionNotFound ==
    \A r \in Reqs :
        req[r].deleted_at_start
        => /\ req[r].pc = "get_by_id" \/ (req[r].pc = "done" /\ req[r].exc = "ValueError")
           /\ RowsBy(r, "user") = {} /\ RowsBy(r, "assistant") = {}

\* C6: after a send in which a model call failed, the store contains the user's
\* turn of that send and no assistant turn created by it.
C6_UserTurnKeptOnUpstreamError ==
    \A r \in Reqs :
        (req[r].kind = "send" /\ req[r].pc = "done" /\ req[r].exc = "UpstreamError")
        => RowsBy(r, "user") # {} /\ RowsBy(r, "assistant") = {}

\* C7: two sends on the same session are serialized: their steps never
\* interleave, and each user turn is immediately followed in creation order by
\* its own assistant reply.
C7_SendsSerialized ==
    /\ \A r1, r2 \in Reqs :
           (r1 # r2 /\ req[r1].kind = "send" /\ req[r2].kind = "send"
                    /\ req[r1].sid = req[r2].sid)
           => ~(InFlight(r1) /\ InFlight(r2))
    /\ \A r \in Reqs :
           (req[r].kind = "send" /\ req[r].pc = "done" /\ req[r].exc = "")
           => \A i \in RowsBy(r, "user") : (i + 1) \in RowsBy(r, "assistant")

----------------------------------------------------------------------------
(* Properties of the generation half (SpecGen).                            *)

NonEmptyChunks(chunks) == SelectSeq(chunks, LAMBDA c : c # <<>>)

ProperPrefix(a, b) == Len(a) < Len(b) /\ a = SubSeq(b, 1, Len(a))

\* C3: in stream the assistant turn is appended only after the upstream delta
\* sequence is drained: whenever the call's assistant turn is in the store, every
\* non-empty chunk of the upstream sequence has been delivered, and the stored
\* content is the concatenation of the delivered deltas.
C3_PersistAfterDrain ==
    \A r \in Reqs :
        req[r].kind = "stream"
        => \A i \in RowsBy(r, "assistant") :
               /\ req[r].pc = "done" /\ req[r].exc = ""
               /\ req[r].delivered = NonEmptyChunks(req[r].generated)
               /\ chat_message[i].content = Concat(req[r].delivered)

\* C3, its case: a stream of several chunks, one of them empty, was drained and
\* its reply stored
C3_Witness ==
    \E r \in Reqs :
        /\ req[r].kind = "stream" /\ req[r].pc = "done"
        /\ Len(req[r].delivered) = 2 /\ Len(req[r].generated) = 3
        /\ \E i \in RowsBy(r, "assistant") : chat_message[i].content = <<"a", "b">>

\* C4: a streaming turn interrupted before the upstream sequence is exhausted,
\* by the caller ceasing to consume or by an upstream error, persists no
\* assistant turn; the store never holds an assistant turn whose content is a
\* proper prefix of the generated reply.
C4_NoPartialAssistantTurn ==
    \A r \in Reqs :
        req[r].kind = "stream"
        => /\ req[r].exc \in {"GeneratorExit", "UpstreamError"} => RowsBy(r, "assistant") = {}
           /\ \A i \in RowsBy(r, "assistant") :
                  ~ProperPrefix(chat_message[i].content, Concat(req[r].generated))

\* C4, its case: the caller stopped, or the upstream failed, after the first
\* of two deltas was delivered
C4_Witness ==
    \E r \in Reqs :
        /\ req[r].kind = "stream" /\ req[r].pc = "done"
        /\ req[r].exc \in {"GeneratorExit", "UpstreamError"}
        /\ Len(req[r].delivered) = 1
        /\ Len(NonEmptyChunks(req[r].generated)) = 2
        /\ RowsBy(r, "assistant") = {}

----------------------------------------------------------------------------
(* Properties of summarizer.py's summarize_chat (SpecSum).                 *)

\* the turns summarize_chat was handed, not counting one leading system turn
LeadingSystem(entries) == entries # <<>> /\ entries[1].role = "system"

Eligible(entries) == Len(entries) - (IF LeadingSystem(entries) THEN 1 ELSE 0)

\* ids of the eligible turns but the last KEEP_RECENT
WindowIds(entries) ==
    { entries[k].id :
        k \in ((IF LeadingSystem(entries) THEN 2 ELSE 1)..(Len(entries) - KEEP_RECENT)) }

AboveThreshold(entries) ==
    count_tokens(Join(<<" ">>, Contents(entries))) > TOKEN_THRESHOLD

\* C8: when the loaded turns tokenize above the threshold and more than
\* KEEP_RECENT of them are eligible, a completed summarize_chat returns a new
\* summary stamped with the session id, that summary is the one row added to the
\* summary table, and exactly the turns of the compression window (the eligible
\* turns but the last KEEP_RECENT) have become soft-deleted: each of them is out
\* of later reads, and no other row changed.
C8_SummaryAndWindowDeleted ==
    (/\ job.pc = "done" /\ job.exc = ""
     /\ AboveThreshold(job.called_with)
     /\ Eligible(job.called_with) > KEEP_RECENT)
    => /\ job.result # None
       /\ job.result[1].session_id = job.sid
       /\ job.result[1] \notin Range(job.summaries_before)
       /\ chat_session_summary = Append(job.summaries_before, job.result[1])
       /\ Len(chat_message) = Len(job.before)
       /\ \A i \in 1..Len(chat_message) :
              chat_message[i] =
                  IF i \in WindowIds(job.called_with)
                  THEN [job.before[i] EXCEPT !.is_deleted = TRUE]
                  ELSE job.before[i]
       /\ \A i \in WindowIds(job.called_with) :
              /\ ~job.before[i].is_deleted
              /\ i \notin Range(VisibleIds(chat_message, job.sid))

\* C8, its case: a heavy history with a leading system turn and more eligible
\* turns than KEEP_RECENT was summarised and its window soft-deleted
C8_Witness ==
    /\ job.pc = "done" /\ job.exc = "" /\ job.result # None
    /\ AboveThreshold(job.called_with)
    /\ LeadingSystem(job.called_with)
    /\ Eligible(job.called_with) > KEEP_RECENT + 1
    /\ \E i \in 1..Len(chat_message) : chat_message[i].is_deleted /\ ~job.before[i].is_deleted

\* C9: when at most KEEP_RECENT of the loaded turns are eligible, summarize_chat
\* ends at once with no summary: no summary row is saved and no turn is
\* soft-deleted, whatever the token count.
C9_TooFewTurnsSkipped ==
    (job.pc \notin {"load", "loaded", "ready"} /\ Eligible(job.called_with) <= KEEP_RECENT)
    => /\ job.pc = "done"
       /\ job.result = None
       /\ chat_session_summary = job.summaries_before
       /\ chat_message = job.before

\* C9, its case: exactly KEEP_RECENT eligible turns after a system turn, above the
\* token threshold, and the call returned nothing
C9_Witness ==
    /\ job.pc = "done" /\ job.exc = "" /\ job.result = None
    /\ LeadingSystem(job.called_with)
    /\ Eligible(job.called_with) = KEEP_RECENT
    /\ AboveThreshold(job.called_with)

----------------------------------------------------------------------------
(* Properties of build_messages (SpecCtx).                                 *)

\* C10: with a summary present, whatever its fields, and exactly three recent
\* turns, all of role user or assistant, build_messages returns exactly six
\* messages: the system prompt, a system message for the summary, the three
\* turns oldest first, and the final query as a user message.
C10_SixMessagesWithSummary ==
    (/\ ctx.pc = "returned" /\ ctx.exc = ""
     /\ ctx.summary # None
     /\ Len(ctx.entries) = 3
     /\ \A k \in 1..3 : ctx.entries[k].role \in {"user", "assistant"})
    => /\ Len(ctx.out) = 6
       /\ ctx.out[1] = [type |-> "system", content |-> system_prompt_str]
       /\ ctx.out[2].type = "system"
       /\ \A k \in 1..3 :
              ctx.out[k + 2] =
                  [type |-> IF ctx.entries[k].role = "user" THEN "human" ELSE "ai",
                   content |-> ctx.entries[k].content]
       /\ ctx.out[6].type = "human"

----------------------------------------------------------------------------
(* The prompt and the classification result (SpecGen, Spec).               *)

C12_DisambiguationExclusive ==
    \A r \in Reqs :
        req[r].qr # None
        => LET q == req[r].qr[1] IN
           /\ q.rewritten_query # None => q.clarifying_questions = <<>>
           /\ ~q.is_ambiguous => q.rewritten_query = None /\ q.clarifying_questions = <<>>
           /\ (q.is_ambiguous /\ q.rewritten_query = None) => q.clarifying_questions # <<>>

----------------------------------------------------------------------------
(* get_latest_summary over a summary table of any size (SpecLatest).       *)

\* summaries of the session: at most MaxOwn before and MaxOwn after the rows of
\* another session, their updated_at drawn from 1..MaxTime
MaxOwn == 2
MaxTime == 3

TimeSeqs == UNION { [1..n -> 1..MaxTime] : n \in 0..MaxOwn }

\* how many rows of another session lie between them
PadSizes == {0, 1, GET_ALL_LIMIT - 1, GET_ALL_LIMIT, GET_ALL_LIMIT + 1}

OwnSummaries(times) ==
    [i \in 1..Len(times) |-> SummaryRow(1, <<"f1">>, <<>>, <<>>, <<>>, times[i])]

OtherSummaries(n) == [i \in 1..n |-> SummaryRow(2, <<"x">>, <<>>, <<>>, <<>>, 0)]

\* call 1 has loaded the turns of a session that has none and is about to read
\* the latest summary
InitLatest ==
    /\ chat_session = [i \in Sids |->
           IF i = 1 THEN [exists |-> TRUE, name |-> "Demo", is_deleted |-> FALSE]
           ELSE NoSession]
    /\ chat_message = <<>>
    /\ \E pre \in TimeSeqs, suf \in TimeSeqs, pad \in PadSizes :
           chat_session_summary = OwnSummaries(pre) \o OtherSummaries(pad) \o OwnSummaries(suf)
    /\ creating = {}
    /\ clock = MaxTime
    /\ job = [pc |-> "unused"]
    /\ ctx = [pc |-> "unused"]
    /\ \E kind \in {"send", "stream"} :
           req = [r \in Reqs |->
                     IF r = 1
                     THEN [IdleReq EXCEPT !.pc = "get_latest_summary", !.kind = kind,
                                          !.sid = 1, !.text = ShortText]
                     ELSE IdleReq]

NextLatest == \E r \in Reqs : GetLatestSummary(r)

SpecLatest == InitLatest /\ [][NextLatest]_vars

\* C13: get_latest_summary returns nothing when the session has no summary, and
\* otherwise a summary of the session with the greatest updated_at among all
\* summaries stored for it, however many summaries the table holds.
C13_LatestSummaryIsGreatest ==
    \A r \in Reqs :
        req[r].pc = "rewrite"
        => LET own == {i \in 1..Len(chat_session_summary) :
                          chat_session_summary[i].session_id = req[r].sid}
           IN  /\ own = {} => req[r].summary = None
               /\ own # {} =>
                     /\ req[r].summary # None
                     /\ \E i \in own : req[r].summary[1] = chat_session_summary[i]
                     /\ \A i \in own :
                            chat_session_summary[i].updated_at <= req[r].summary[1].updated_at

----------------------------------------------------------------------------
(* ChatMessageRecord.delete_many applied repeatedly (SpecDel).             *)

MaxCalls == 3

\* the id lists handed to delete_many: none, one id, several, all of a short
\* session, a repeated id, an id no row has
IdLists == { <<>>, <<1>>, <<2, 3>>, <<1, 2, 3, 4>>, <<3, 3>>, <<MaxStored + 2>> }

InitDel ==
    /\ chat_session = [i \in Sids |->
           IF i = 1 THEN [exists |-> TRUE, name |-> "Demo", is_deleted |-> FALSE]
           ELSE NoSession]
    /\ \E n \in 0..MaxStored, lead \in BOOLEAN, heavy \in BOOLEAN, foreign \in BOOLEAN :
       \E gone \in {{}, {1}, {2, 3}} :
           chat_message = StoredTurns(n, lead, heavy, gone, foreign)
    /\ chat_session_summary = <<>>
    /\ creating = {}
    /\ req = [r \in Reqs |-> IdleReq]
    /\ clock = 0
    /\ \E sid \in {1, 2}, ids \in IdLists :
           job = [pc |-> "soft_delete", sid |-> sid, ids |-> ids, calls |-> 0,
                  before |-> chat_message,        \* history: the table at the start
                  after_first |-> chat_message]   \* history: the table after the first call
    /\ ctx = [pc |-> "unused"]

\* await ChatMessageRecord.delete_many(session_id, ids)
DeleteMany ==
    /\ job.pc = "soft_delete"
    /\ job.calls < MaxCalls
    /\ chat_message' = delete_many(chat_message, job.sid, job.ids)
    /\ job' = [job EXCEPT !.calls = job.calls + 1,
                          !.after_first = IF job.calls = 0 THEN chat_message'
                                          ELSE job.after_first]
    /\ UNCHANGED <<chat_session, chat_session_summary, creating, req, clock, ctx>>

NextDel == DeleteMany

SpecDel == InitDel /\ [][NextDel]_vars

\* C14: delete_many is idempotent: after any further call with the same session
\* id and ids the table is what the first call left, and with an empty id list
\* the table is what it was before the call.
C14_SoftDeleteIdempotent ==
    job.pc = "soft_delete"
    => /\ job.calls >= 1 => chat_message = job.after_first
       /\ job.ids = <<>> => chat_message = job.before

\* C14, its case: a second call after a first one that soft-deleted a turn
C14_Witness ==
    /\ job.pc = "soft_delete"
    /\ job.calls = 2
    /\ \E i \in 1..Len(chat_message) : chat_message[i].is_deleted /\ ~job.before[i].is_deleted

----------------------------------------------------------------------------
(* Sessions of the service as wired (Spec).                                *)

\* C15: delete_chat only sets the flag: the step that sets it leaves the session
\* row, every turn and every summary in place, and in every later step, whatever
\* the operation, a session row stays a row with its name, a set flag stays set,
\* and no turn is removed or rewritten.
C15_SoftDeleteOnly ==
    [][ /\ \A id \in Sids :
             /\ chat_session[id].exists
                => chat_session'[id].exists /\ chat_session'[id].name = chat_session[id].name
             /\ chat_session[id].is_deleted => chat_session'[id].is_deleted
             /\ (chat_session[id].exists /\ ~chat_session[id].is_deleted
                                         /\ chat_session'[id].is_deleted)
                => chat_message' = chat_message /\ chat_session_summary' = chat_session_summary
        /\ Len(chat_message') >= Len(chat_message)
        /\ \A i \in 1..Len(chat_message) :
               /\ chat_message'[i].session_id = chat_message[i].session_id
               /\ chat_message'[i].role = chat_message[i].role
               /\ chat_message'[i].content = chat_message[i].content
        /\ Len(chat_session_summary') >= Len(chat_session_summary)
      ]_vars

\* C15, its case: the session was soft-deleted, and a call that began afterwards
\* has appended a turn to it; the row and the flag are still there
C15_Witness ==
    \E id \in Sids :
        /\ chat_session[id].exists /\ chat_session[id].is_deleted
        /\ \E r \in Reqs :
               /\ req[r].sid = id /\ req[r].deleted_at_start /\ req[r].pc = "done"
               /\ RowsBy(r, "user") # {}

\* the turns of a session in creation order, soft-deleted or not
TurnsOf(id) == SelectSeq(chat_message, LAMBDA row : row.session_id = id)

\* C16: once create_chat has returned, the session's first turn in creation order
\* is the system turn holding the fixed system prompt, in that state and in every
\* later one.
C16_SystemTurnFirst ==
    \A id \in Sids :
        (chat_session[id].exists /\ id \notin creating)
        => /\ TurnsOf(id) # <<>>
           /\ TurnsOf(id)[1].role = "system"
           /\ TurnsOf(id)[1].content = system_prompt_str

\* C17: a send that finds a freshly created session (its seeded system turn and
\* nothing else) does not fail on its own, and when the query is classified
\* unambiguous the prompt the model is called with is exactly the system prompt
\* followed by the final query: the user's text appears once.
C17_FirstPromptIsSystemAndQuery ==
    \A r \in Reqs :
        (req[r].fresh /\ req[r].pc = "done")
        => /\ req[r].exc \in {"", "UpstreamError"}
           /\ (req[r].exc = "" /\ req[r].qr # None /\ ~req[r].qr[1].is_ambiguous)
              => req[r].prompt = << [type |-> "system", content |-> system_prompt_str],
                                    [type |-> "human", content |-> req[r].text] >>

----------------------------------------------------------------------------
(* A long conversation summarised (SpecSum).                               *)

\* C18: for a session holding ScenarioTurns visible prior turns, the first the
\* system turn, whose text is above the token threshold, the summarization of one
\* send soft-deletes all ScenarioTurns - 1 - KEEP_RECENT turns of the compression
\* window and leaves KEEP_RECENT + 1 of the prior turns visible.
C18_LongConversationCompressed ==
    LET prior == Len(job.before) - 1 IN
    (/\ job.pc = "done" /\ job.exc = ""
     /\ job.called_with # <<>>
     /\ job.called_with[Len(job.called_with)].tag = "obj"
     /\ prior = ScenarioTurns
     /\ job.before[1].role = "system"
     /\ \A i \in 1..prior : job.before[i].session_id = job.sid /\ ~job.before[i].is_deleted
     /\ AboveThreshold(job.called_with))
    => /\ job.result # None
       /\ Cardinality({i \in 1..prior : chat_message[i].is_deleted})
              = ScenarioTurns - 1 - KEEP_RECENT
       /\ Cardinality({i \in 1..prior : ~chat_message[i].is_deleted}) = KEEP_RECENT + 1

----------------------------------------------------------------------------
(* _prepare_context on a session as _preprocess_query leaves it (SpecPrep). *)

\* the session's turns were loaded, the user's turn was appended and stored, and
\* _prepare_context(session, summary) is about to run; in between, summarize_chat
\* of summarizer.py has or has not saved a summary and soft-deleted its window,
\* leaving session.messages as it was
InitPrep ==
    /\ chat_session = [i \in Sids |->
           IF i = 1 THEN [exists |-> TRUE, name |-> "Demo", is_deleted |-> FALSE]
           ELSE NoSession]
    /\ creating = {}
    /\ req = [r \in Reqs |-> IdleReq]
    /\ job = [pc |-> "unused"]
    /\ \E n \in 0..MaxStored, lead \in BOOLEAN, heavy \in BOOLEAN, foreign \in BOOLEAN :
       \E gone \in {{}, {1}, {2, 3}}, text \in UserTexts, stored \in StoredSummaries :
       \E summarised \in BOOLEAN :
       LET prior == StoredTurns(n, lead, heavy, gone, foreign)
           entries == Append(load_messages(prior, 1, LOAD_LIMIT, 0), Obj("user", text))
           table == Append(prior, Row(1, "user", text, 1))
           fresh == SummaryRow(1, <<"f1">>, <<"o1">>, <<>>, <<>>, Len(stored) + 1)
       IN  /\ summarised => ~TooFew(entries)
           /\ chat_message = IF summarised
                             THEN delete_many(table, 1, MessageIds(to_summarize(entries)))
                             ELSE table
           /\ chat_session_summary = IF summarised THEN Append(stored, fresh) ELSE stored
           /\ clock = Len(chat_session_summary)
           /\ ctx = [pc |-> "prepare", text |-> text, entries |-> entries,
                     summarised |-> summarised,
                     summary |-> IF summarised THEN Some(fresh)
                                 ELSE get_latest_summary(stored, 1),
                     out |-> <<>>, exc |-> ""]

\* context_messages = self._prepare_context(session, summary): msg.role raises on
\* a loaded [id, ChatMessage] among the last MAX_CONTEXT_MESSAGES entries
PrepareContext ==
    /\ ctx.pc = "prepare"
    /\ ctx' = IF AttributeFails(LastN(ctx.entries, MAX_CONTEXT_MESSAGES))
              THEN [ctx EXCEPT !.pc = "prepared", !.exc = "AttributeError"]
              ELSE [ctx EXCEPT !.pc = "prepared",
                               !.out = _prepare_context(ctx.entries, ctx.summary)]
    /\ UNCHANGED <<chat_session, chat_message, chat_session_summary, creating, req, clock, job>>

NextPrep == PrepareContext

SpecPrep == InitPrep /\ [][NextPrep]_vars

\* the turns of the session stored before the current user turn that are
\* visible, the most recent LOAD_LIMIT (10) of them, oldest first, system turns left
\* out, each as a message of its role
HistoryMessages ==
    LET prior == SubSeq(chat_message, 1, Len(chat_message) - 1)
        vis == VisibleIds(prior, 1)
        recent == SubSeq(vis, Max(1, Len(vis) - LOAD_LIMIT + 1), Len(vis))
        kept == SelectSeq(recent, LAMBDA i : prior[i].role # "system")
    IN  [k \in 1..Len(kept) |->
            [type |-> IF prior[kept[k]].role = "user" THEN "human" ELSE "ai",
             content |-> prior[kept[k]].content]]

----------------------------------------------------------------------------
(* The summary the classification sees (Spec).                             *)

\* C20: the summary handed to the classification of a turn is the session's
\* latest summary as of after the turn's summarization step: when the query has
\* been classified, the summarization check of that turn has already been made.
C20_ClassifiedAfterSummarization ==
    \A r \in Reqs : req[r].qr # None => req[r].checked

----------------------------------------------------------------------------
(* The branch taken after classification (Spec).                           *)

\* the call is on the early-reply branch, or has ended on it
OnEarlyBranch(r) ==
    \/ req[r].pc \in {"add_clarification", "yield_early"}
    \/ RowsBy(r, "assistant") # {}
    \/ req[r].reply # None
    \/ req[r].delivered # <<>>

C22_NoSummaryIsNoError ==
    \A r \in Reqs :
        (req[r].kind = "send" /\ req[r].pc = "done" /\ req[r].checked)
        => req[r].exc = "" /\ req[r].reply # None

----------------------------------------------------------------------------
(* The summarization check on summarizer.py (SpecSum).                     *)

\* C23: when the loaded turns do not tokenize above the threshold, the test of
\* should_summarize comes out false, and the turn goes on without creating or
\* saving a summary and without soft-deleting a turn.
C23_BelowThresholdNoSummarization ==
    /\ (job.pc \in {"loaded", "ready"} /\ job.triggered # "unknown"
                                       /\ ~AboveThreshold(job.messages))
       => job.triggered = "no"
    /\ (job.pc \notin {"load", "loaded", "ready"} /\ job.triggered # "unknown"
                                                  /\ ~AboveThreshold(job.called_with))
       => /\ job.pc = "done"
          /\ chat_session_summary = job.summaries_before
          /\ chat_message = job.before

\* C24: when summarize_chat has saved its summary, it returns that summary
\* without an exception whether or not the soft-delete that follows succeeds: a
\* failed soft-delete leaves the saved summary in place and only leaves the
\* window turns visible.
C24_DeleteFailureIsNotFatal ==
    (job.pc = "done" /\ Len(chat_session_summary) > Len(job.summaries_before))
    => /\ job.exc = ""
       /\ job.result # None
       /\ job.result[1] = chat_session_summary[Len(chat_session_summary)]

----------------------------------------------------------------------------
(* The prompt of the turn in which summarization ran (SpecPrep).           *)

----------------------------------------------------------------------------
(* Summary rows under summarize_chat (SpecSum).                            *)

\* C26: summaries are append-only: no step of summarize_chat changes or removes a
\* stored summary row, and a call that ends returning a summary leaves the
\* table as it was at the call plus that one new row at its end.
C26_SummariesAppendOnly ==
    [][/\ Len(chat_session_summary') >= Len(chat_session_summary)
       /\ \A i \in 1..Len(chat_session_summary) :
              chat_session_summary'[i] = chat_session_summary[i]
       /\ (job'.pc = "done" /\ job'.result # None)
          => chat_session_summary' = Append(job'.summaries_before, job'.result[1])]_vars

C26_Witness ==
    /\ job.pc = "done" /\ job.result # None
    /\ job.summaries_before # <<>>
    /\ Len(chat_session_summary) = Len(job.summaries_before) + 1
    /\ chat_session_summary[Len(chat_session_summary)] = job.result[1]

----------------------------------------------------------------------------
(* The turns one send adds (Spec).                                         *)

\* C27: a send that has ended without error added exactly one user turn, holding
\* the caller's text, and exactly one assistant turn, holding the reply it
\* returned, the user turn stored before the assistant turn; no call, ended or
\* not, has added more than one assistant turn.
C27_OneUserOneAssistantPerSend ==
    \A r \in Reqs :
        /\ Cardinality(RowsBy(r, "assistant")) <= 1
        /\ (req[r].kind = "send" /\ req[r].pc = "done" /\ req[r].exc = "")
           => /\ req[r].reply # None
              /\ Cardinality(RowsBy(r, "user")) = 1
              /\ Cardinality(RowsBy(r, "assistant")) = 1
              /\ \A i \in RowsBy(r, "user") : \A j \in RowsBy(r, "assistant") :
                     /\ i < j
                     /\ chat_message[i].content = req[r].text
                     /\ chat_message[j].content = req[r].reply[1]

C27_Witness ==
    \E r \in Reqs : \E i, j \in 1..Len(chat_message) :
        /\ req[r].kind = "send" /\ req[r].pc = "done" /\ req[r].exc = ""
        /\ i < j
        /\ chat_message[i].by = r /\ chat_message[i].role = "user"
        /\ chat_message[i].content = req[r].text
        /\ chat_message[j].by = r /\ chat_message[j].role = "assistant"
        /\ <<chat_message[j].content>> = req[r].reply

----------------------------------------------------------------------------
(* Stored turns under summarize_chat (SpecSum).                            *)

\* C28: no step changes the session, role or content of a stored turn or removes
\* it; the only change to a stored turn is its is_deleted flag being set, by the
\* delete step of summarize_chat and only for turns of the compression window
\* of that call; a flagged turn stays flagged and is in no later visible read.
C28_TurnsImmutableButSoftDelete ==
    [][\A i \in 1..Len(chat_message) :
          /\ i <= Len(chat_message')
          /\ chat_message'[i].session_id = chat_message[i].session_id
          /\ chat_message'[i].role = chat_message[i].role
          /\ chat_message'[i].content = chat_message[i].content
          /\ chat_message[i].is_deleted
             => /\ chat_message'[i].is_deleted
                /\ i \notin Range(VisibleIds(chat_message', chat_message[i].session_id))
          /\ (chat_message'[i].is_deleted /\ ~chat_message[i].is_deleted)
             => /\ job.pc = "delete"
                /\ i \in WindowIds(job.called_with)]_vars

C28_Witness ==
    /\ job.pc = "done" /\ job.exc = ""
    /\ \E i, k \in 1..Len(chat_message) :
          /\ chat_message[i].is_deleted /\ ~job.before[i].is_deleted
          /\ job.before[k].is_deleted /\ chat_message[k] = job.before[k]

----------------------------------------------------------------------------
(* GET /sessions/{session_id}/messages: get_session_messages (SpecList).   *)

MaxPage == 2
MaxPageSize == 4

\* page_size: int = 10
DEFAULT_PAGE_SIZE == 10

\* the query parameters page and page_size
Pages == 0..MaxPage
PageSizes == (1..MaxPageSize) \cup {DEFAULT_PAGE_SIZE}

\* a store holding session 1 with its turns, and one call of the endpoint, for
\* session 1 or for a session id that no row has
InitList ==
    /\ chat_session = [i \in Sids |->
           IF i = 1 THEN [exists |-> TRUE, name |-> "Demo", is_deleted |-> FALSE]
           ELSE NoSession]
    /\ \E n \in 0..MaxStored, lead \in BOOLEAN, heavy \in BOOLEAN, foreign \in BOOLEAN :
       \E gone \in {{}, {1}, {2, 3}} :
           chat_message = StoredTurns(n, lead, heavy, gone, foreign)
    /\ chat_session_summary = <<>>
    /\ creating = {}
    /\ req = [r \in Reqs |-> IdleReq]
    /\ clock = 0
    /\ job = [pc |-> "unused"]
    /\ \E sid \in {1, 2}, page \in Pages, page_size \in PageSizes :
           ctx = [pc |-> "get_by_id", sid |-> sid, page |-> page, page_size |-> page_size,
                  found |-> FALSE, messages |-> <<>>,
                  status |-> 0, body |-> <<>>, has_more |-> FALSE, detail |-> ""]

ListFrame ==
    UNCHANGED <<chat_session, chat_message, chat_session_summary, creating, req, clock, job>>

\* session = await ChatSession.get_by_id(session_id); if not session: raise
\* HTTPException(status_code=404) inside the try, whose "except Exception"
\* catches it and raises HTTPException(status_code=500)
ListGetById ==
    /\ ctx.pc = "get_by_id"
    /\ ctx' = IF get_by_id(chat_session, ctx.sid) = None
              THEN [ctx EXCEPT !.pc = "done", !.status = 500, !.detail = "HTTPException"]
              ELSE [ctx EXCEPT !.pc = "load_messages", !.found = TRUE]
    /\ ListFrame

\* await session.load_messages(limit=page_size, page=page)
ListLoadMessages ==
    /\ ctx.pc = "load_messages"
    /\ ctx' = [ctx EXCEPT !.pc = "respond",
                          !.messages = load_messages(chat_message, ctx.sid,
                                                     ctx.page_size, ctx.page)]
    /\ ListFrame

\* the returned dict: msg.role and msg.content for msg in session.messages,
\* has_more = len(session.messages) == page_size; an exception becomes the 500
ListRespond ==
    /\ ctx.pc = "respond"
    /\ ctx' = IF AttributeFails(ctx.messages)
              THEN [ctx EXCEPT !.pc = "done", !.messages = <<>>,
                               !.status = 500, !.detail = "AttributeError"]
              ELSE [ctx EXCEPT !.pc = "done", !.messages = <<>>,
                               !.status = 200,
                               !.body = [k \in 1..Len(ctx.messages) |->
                                            [role |-> ctx.messages[k].role,
                                             content |-> ctx.messages[k].content]],
                               !.has_more = (Len(ctx.messages) = ctx.page_size)]
    /\ ListFrame

NextList ==
    \/ ListGetById
    \/ ListLoadMessages
    \/ ListRespond

SpecList == InitList /\ [][NextList]_vars

\* C29: a listing of an existing session answers 200 with at most page_size
\* visible turns of the session in creation order, none when the session has
\* none left for the page, and has_more is true exactly when a visible turn
\* lies beyond the page.
C29_ListTurnsPageAndHasMore ==
    (ctx.pc = "done" /\ ctx.found)
    => LET vis == VisibleIds(chat_message, ctx.sid)
           shown == Min(ctx.page_size, Max(0, Len(vis) - ctx.page * ctx.page_size))
       IN  /\ ctx.status = 200
           /\ Len(ctx.body) = shown
           /\ \E f \in [1..shown -> Range(vis)] :
                 /\ \A k \in 1..shown :
                        /\ ctx.body[k].role = chat_message[f[k]].role
                        /\ ctx.body[k].content = chat_message[f[k]].content
                 /\ \A k \in 1..(shown - 1) : f[k] < f[k + 1]
           /\ ctx.has_more <=> (Len(vis) > (ctx.page + 1) * ctx.page_size)

\* C30: a listing of a session that no row has is answered 404.
C30_MissingSessionIsNotFound ==
    (ctx.pc = "done" /\ ~ctx.found) => ctx.status = 404

----------------------------------------------------------------------------
(* Termination of send_message's generation half (SpecGenFair).            *)

----------------------------------------------------------------------------
(* The system turn under summarize_chat (SpecSum).                         *)

\* C32: no step of a send's summarization soft-deletes the system turn seeded
\* at the creation of the session, whether or not load_messages has read it.
C32_SystemTurnNeverDeleted ==
    [][\A i \in 1..Len(chat_message) :
          (chat_message[i].role = "system" /\ ~chat_message[i].is_deleted)
          => ~chat_message'[i].is_deleted]_vars

----------------------------------------------------------------------------
(* The service next to another session's rows (SpecIso).                   *)

\* the id of a session other than those the calls are made on
OtherSession == MaxSessions + 1

\* the service as wired, started on a store that already holds a turn and a
\* summary of another session
InitIso ==
    /\ chat_session = [i \in Sids |-> NoSession]
    /\ chat_message = <<Row(OtherSession, "user", <<"x">>, 0)>>
    /\ chat_session_summary =
           <<SummaryRow(OtherSession, <<"f1">>, <<>>, <<"d1">>, <<>>, 1)>>
    /\ creating = {}
    /\ req = [r \in Reqs |-> IdleReq]
    /\ clock = 1
    /\ job = [pc |-> "unused"]
    /\ ctx = [pc |-> "unused"]

SpecIso == InitIso /\ [][Next]_vars

\* the sessions the step is taken for: those of the calls that move, of the
\* create_chat that seeds, of the summarization or soft-delete that moves
ActingSessions ==
    {req'[r].sid : r \in {q \in Reqs : req'[q] # req[q]}}
    \cup (creating \ creating')
    \cup (IF job' # job THEN {job.sid} ELSE {})

\* C33: sessions are isolated: a step taken for one session changes no stored
\* turn or summary of another session and appends turns and summaries to its
\* own session only, and the summary and the loaded turns a call holds for its
\* prompt all belong to the session of the call.
C33_SessionsIsolated ==
    [][/\ Len(chat_message') >= Len(chat_message)
       /\ Len(chat_session_summary') >= Len(chat_session_summary)
       /\ \A i \in 1..Len(chat_message) :
              chat_message[i].session_id \notin ActingSessions
              => chat_message'[i] = chat_message[i]
       /\ \A i \in (Len(chat_message) + 1)..Len(chat_message') :
              chat_message'[i].session_id \in ActingSessions
       /\ \A i \in 1..Len(chat_session_summary) :
              chat_session_summary[i].session_id \notin ActingSessions
              => chat_session_summary'[i] = chat_session_summary[i]
       /\ \A i \in (Len(chat_session_summary) + 1)..Len(chat_session_summary') :
              chat_session_summary'[i].session_id \in ActingSessions
       /\ \A r \in Reqs :
              /\ req'[r].summary # None => req'[r].summary[1].session_id = req'[r].sid
              /\ \A k \in 1..Len(req'[r].messages) :
                     req'[r].messages[k].tag = "pair"
                     => chat_message'[req'[r].messages[k].id].session_id = req'[r].sid]_vars

\* C33, its case: a call on a session holds that session's loaded turns, after
\* a call has appended its user turn and its reply to the session, while
\* another session's turn and summary are stored
C33_Witness ==
    \E r \in Reqs :
        /\ req[r].pc \notin {"idle", "done"}
        /\ \E k \in 1..Len(req[r].messages) : req[r].messages[k].tag = "pair"
        /\ \E q \in Reqs : RowsBy(q, "user") # {} /\ RowsBy(q, "assistant") # {}
        /\ \E i \in 1..Len(chat_message) : chat_message[i].session_id # req[r].sid
        /\ \E i \in 1..Len(chat_session_summary) :
               chat_session_summary[i].session_id # req[r].sid

====
